---- MODULE Spec2Model ----
(***************************************************************************)
(* Model of the document ingestion and retrieval pipeline of               *)
(* chatbot/rag_utils.py: the chunker (split_text), the extractor router    *)
(* (extract_text_generic), indexing (add_document_text,                    *)
(* ingest_file_to_chroma) and retrieval (get_relevant_chunks).             *)
(*                                                                         *)
(* A Python str is a sequence of one-character strings.                    *)
(***************************************************************************)
EXTENDS Integers, Sequences, FiniteSets, TLC

(* ------------------------------ bounds --------------------------------- *)

\* longest input text given to split_text in SplitSpec
MaxLen == 4

\* largest chunk_size (and overlap) given to split_text in SplitSpec
MaxChunk == 3

\* a hard-slice loop that does not advance is cut off after this many chunks
MaxOut == 5

\* number of ingest and retrieve calls made in Spec
MaxCalls == 2

(* --------------------------- program constants -------------------------- *)

DEFAULT_CHUNK_SIZE == 800

DEFAULT_OVERLAP == 120

\* the top_k CustomChatbotView.post asks for
CHAT_TOP_K == 20

(* ------------------------------ strings --------------------------------- *)

Alphabet == {"a", "b", " ", "\n", "\r"}

\* the characters str.strip() removes that occur in the modelled texts
Whitespace == {" ", "\t", "\n", "\r"}

Min(S) == CHOOSE x \in S : \A y \in S : x <= y

Max(S) == CHOOSE x \in S : \A y \in S : x >= y

Strs(n) == UNION {[1..k -> Alphabet] : k \in 0..n}

Rep(ch, n) == [i \in 1..n |-> ch]

\* s[start:end] of Python, negative indices counted from the end
PySlice(s, from, to) ==
    LET n == Len(s)
        norm(i) == IF i < 0 THEN (IF i + n < 0 THEN 0 ELSE i + n)
                   ELSE (IF i > n THEN n ELSE i)
    IN  SubSeq(s, norm(from) + 1, norm(to))

NotCR(ch) == ch # "\r"

\* text.replace("\r", "")
RemoveCR(t) == SelectSeq(t, NotCR)

\* s.strip()
strip(s) ==
    LET n == Len(s)
        lead == CHOOSE k \in 0..n : k = n \/ s[k + 1] \notin Whitespace
        trail == CHOOSE k \in 0..n : k = n \/ s[n - k] \notin Whitespace
    IN  SubSeq(s, lead + 1, n - trail)

\* t.split("\n"): one piece more than there are newlines, empty pieces kept
SplitNL(t) ==
    LET cuts == {0} \cup {i \in 1..Len(t) : t[i] = "\n"} \cup {Len(t) + 1}
        kth(k) == CHOOSE b \in cuts : Cardinality({x \in cuts : x < b}) = k - 1
    IN  [k \in 1..(Cardinality(cuts) - 1) |-> SubSeq(t, kth(k) + 1, kth(k + 1) - 1)]

NonEmpty(s) == s # <<>>

MapStrip(ps) == [i \in 1..Len(ps) |-> strip(ps[i])]

\* "\n".join(parts)
RECURSIVE JoinNL(_)
JoinNL(parts) ==
    IF parts = <<>> THEN <<>>
    ELSE IF Len(parts) = 1 THEN parts[1]
    ELSE parts[1] \o <<"\n">> \o JoinNL(Tail(parts))

(* ------------------------------ split_text ------------------------------ *)

\* lines 49-50: the trimmed non-empty paragraphs of the text
Paragraphs(t) == SelectSeq(MapStrip(SplitNL(RemoveCR(t))), NonEmpty)

\* AccBody that closes the buffer already when the paragraph fills it exactly
AccBodyStrict(st, p, size) ==
    IF Len(st.buf) + Len(p) + 1 < size
    THEN [buf |-> IF st.buf # <<>> THEN st.buf \o <<"\n">> \o p ELSE p,
          chunks |-> st.chunks]
    ELSE [buf |-> p,
          chunks |-> IF st.buf # <<>> THEN Append(st.chunks, st.buf) ELSE st.chunks]

\* lines 53-58: one iteration of the accumulation loop on paragraph p
AccBody(st, p, size) ==
    IF Len(st.buf) + Len(p) + 1 <= size
    THEN [buf |-> IF st.buf # <<>> THEN st.buf \o <<"\n">> \o p ELSE p,
          chunks |-> st.chunks]
    ELSE [buf |-> p,
          chunks |-> IF st.buf # <<>> THEN Append(st.chunks, st.buf) ELSE st.chunks]

\* Flush without lines 59-60: the last buffer is never appended
FlushNothing(st) == st.chunks

\* lines 59-60: the remaining buffer is flushed
Flush(st) == IF st.buf # <<>> THEN Append(st.chunks, st.buf) ELSE st.chunks

\* SliceBody with a window that is overlap characters too long
SliceBodyWide(c, from, size, ov) ==
    [out |-> PySlice(c, from, from + size + ov), start |-> from + size - ov]

\* SliceBody that advances by the overlap instead of by the stride
SliceBodyByOverlap(c, from, size, ov) ==
    [out |-> PySlice(c, from, from + size), start |-> from + ov]

\* lines 70-72: one iteration of the hard-slice loop
SliceBody(c, from, size, ov) ==
    [out |-> PySlice(c, from, from + size), start |-> from + size - ov]

RECURSIVE AccLoop(_, _, _, _)
AccLoop(ps, i, st, size) ==
    IF i > Len(ps) THEN st ELSE AccLoop(ps, i + 1, AccBody(st, ps[i], size), size)

\* lines 51-60
Accumulate(ps, size) == Flush(AccLoop(ps, 1, [buf |-> <<>>, chunks |-> <<>>], size))

\* lines 68-72, defined when ov < size
RECURSIVE WhileLoop(_, _, _, _, _)
WhileLoop(c, from, size, ov, acc) ==
    IF from < Len(c)
    THEN LET b == SliceBody(c, from, size, ov)
         IN  WhileLoop(c, b.start, size, ov, Append(acc, b.out))
    ELSE acc

\* lines 63-72
RECURSIVE HardSlice(_, _, _, _)
HardSlice(cs, i, size, ov) ==
    IF i > Len(cs) THEN <<>>
    ELSE (IF Len(cs[i]) <= size THEN <<cs[i]>> ELSE WhileLoop(cs[i], 0, size, ov, <<>>))
         \o HardSlice(cs, i + 1, size, ov)

\* split_text(text, chunk_size, overlap), defined when overlap < chunk_size
split_text(t, size, ov) == HardSlice(Accumulate(Paragraphs(t), size), 1, size, ov)

(* --------------------------- extractor router --------------------------- *)

\* lines 143-158
EXT_MAP ==
    [e \in {".pdf", ".docx", ".pptx", ".xlsx", ".xls", ".csv", ".html", ".htm",
            ".txt", ".md", ".jpg", ".jpeg", ".png", ".webp"} |->
        CASE e = ".pdf" -> "extract_text_from_pdf"
          [] e = ".docx" -> "extract_text_from_docx"
          [] e = ".pptx" -> "extract_text_from_pptx"
          [] e \in {".xlsx", ".xls"} -> "extract_text_from_excel"
          [] e = ".csv" -> "extract_text_from_csv"
          [] e \in {".html", ".htm"} -> "extract_text_from_html"
          [] e \in {".txt", ".md"} -> "extract_text_from_txt"
          [] OTHER -> "extract_text_from_image"]

\* str.lower() on those extensions
Lower(e) == IF e = ".PDF" THEN ".pdf" ELSE e

\* what a file does to the extractor that reads it: the extractor raises, or it
\* returns a text
Raising == [raises |-> TRUE, text |-> <<>>]

Returning(t) == [raises |-> FALSE, text |-> t]

\* lines 79-137: the selected extractor runs on the file; only the image extractor
\* looks at OCR_AVAILABLE, and returns "" without opening the file when it is off
RunExtractor(func, content, ocr) ==
    IF func = "extract_text_from_image" /\ ~ocr
    THEN [raised |-> FALSE, text |-> <<>>]
    ELSE IF content.raises
         THEN [raised |-> TRUE, text |-> <<>>]
         ELSE [raised |-> FALSE, text |-> content.text]

\* lines 165-172: the extractor selected for a lowercased extension
SelectExtractor(ext) ==
    IF ext \in DOMAIN EXT_MAP THEN EXT_MAP[ext]
    ELSE IF ext \in {".gif", ".tif", ".tiff"} THEN "extract_text_from_image"
    ELSE "extract_text_from_txt"

\* extract_text_generic without the try/except of lines 174-177
extract_text_generic_nocatch(pathExt, content, ocr) ==
    LET func == SelectExtractor(Lower(pathExt))
        run == RunExtractor(func, content, ocr)
    IN  [text |-> run.text,
         name |-> func,
         invoked |-> <<func>>,
         caught |-> FALSE,
         raised |-> run.raised]

\* extract_text_generic that reads the file again as plain text when the selected
\* extractor raised
extract_text_generic_retry(pathExt, content, ocr) ==
    LET func == SelectExtractor(Lower(pathExt))
        run == RunExtractor(func, content, ocr)
        again == RunExtractor("extract_text_from_txt", content, ocr)
    IN  IF run.raised
        THEN [text |-> again.text,
              name |-> "extract_text_from_txt",
              invoked |-> <<func, "extract_text_from_txt">>,
              caught |-> TRUE,
              raised |-> FALSE]
        ELSE [text |-> run.text,
              name |-> func,
              invoked |-> <<func>>,
              caught |-> FALSE,
              raised |-> FALSE]

\* lines 161-178: extract_text_generic; raised says whether an exception leaves it
extract_text_generic(pathExt, content, ocr) ==
    LET func == SelectExtractor(Lower(pathExt))
        run == RunExtractor(func, content, ocr)
    IN  [text |-> IF run.raised THEN <<>> ELSE run.text,
         name |-> func,
         invoked |-> <<func>>,
         caught |-> run.raised,
         raised |-> FALSE]

(* ------------------------- embedding and the index ---------------------- *)

Count(t, ch) == Cardinality({i \in 1..Len(t) : t[i] = ch})

\* line 36: the sentence embedding model, a fixed function from text to vector
Encode(t) == <<Count(t, "a"), Count(t, "b")>>

\* the distance the index orders by (squared L2)
Distance(u, v) == (u[1] - v[1]) * (u[1] - v[1]) + (u[2] - v[2]) * (u[2] - v[2])

\* line 42: sha1(text) of the source names used
Sources == {"a.txt", "b.txt"}

sha1(name) ==
    IF name = "a.txt" THEN "cfc7b4885384957ae445bc14914d4588f607651c"
    ELSE "aceba96ffdf13ce4cd4171c0248420cc03108ef0"

\* values of uuid.uuid4().hex[:8]
Suffixes == {"0f3a9c1e", "7b2d4e68"}

IdsOf(coll) == {coll[i].id : i \in 1..Len(coll)}

\* lines 201-204: collection.add raises when an id is already stored, and writes
\* nothing then; otherwise it appends all entries
CollectionAdd(coll, ids, embeddings, documents, metadatas) ==
    IF \E i \in 1..Len(ids) : ids[i] \in IdsOf(coll)
    THEN [err |-> "IndexWriteConflict", coll |-> coll]
    ELSE [err |-> "none",
          coll |-> coll \o [i \in 1..Len(ids) |->
                      [id |-> ids[i], embedding |-> embeddings[i],
                       document |-> documents[i], metadata |-> metadatas[i]]]]

NonBlank(c) == Len(strip(c)) > 0

\* line 189
RetainedChunks(full_text) ==
    SelectSeq(split_text(full_text, DEFAULT_CHUNK_SIZE, DEFAULT_OVERLAP), NonBlank)

\* add_document_text that indexes every chunk, blank ones included
add_document_text_unfiltered(full_text, source_name, coll, suffix, encodeOk) ==
    LET cs == split_text(full_text, DEFAULT_CHUNK_SIZE, DEFAULT_OVERLAP)
        n == Len(cs)
        sfx == [i \in 1..n |-> IF i \in DOMAIN suffix THEN suffix[i] ELSE "0f3a9c1e"]
    IN  IF cs = <<>>
        THEN [err |-> "none", ret |-> 0, coll |-> coll, encodes |-> 0, adds |-> 0,
              ids |-> <<>>]
        ELSE IF ~encodeOk
        THEN [err |-> "EmbeddingFailure", ret |-> 0, coll |-> coll, encodes |-> 1,
              adds |-> 0, ids |-> <<>>]
        ELSE LET embeddings == [i \in 1..n |-> Encode(cs[i])]
                 ids == [i \in 1..n |-> <<sha1(source_name), i - 1, sfx[i]>>]
                 metadatas == [i \in 1..n |-> [source |-> source_name, chunk |-> i - 1]]
                 w == CollectionAdd(coll, ids, embeddings, cs, metadatas)
             IN  [err |-> w.err, ret |-> IF w.err = "none" THEN n ELSE 0,
                  coll |-> w.coll, encodes |-> 1, adds |-> 1, ids |-> ids]

\* add_document_text that catches the exceptions of the embedding and of the
\* index write and returns the chunk count all the same
add_document_text_swallow(full_text, source_name, coll, suffix, encodeOk) ==
    LET cs == RetainedChunks(full_text)
        n == Len(cs)
    IN  IF cs = <<>>
        THEN [err |-> "none", ret |-> 0, coll |-> coll, encodes |-> 0, adds |-> 0,
              ids |-> <<>>]
        ELSE IF ~encodeOk
        THEN [err |-> "none", ret |-> n, coll |-> coll, encodes |-> 1,
              adds |-> 0, ids |-> <<>>]
        ELSE LET embeddings == [i \in 1..n |-> Encode(cs[i])]
                 ids == [i \in 1..n |-> <<sha1(source_name), i - 1, suffix[i]>>]
                 metadatas == [i \in 1..n |-> [source |-> source_name, chunk |-> i - 1]]
                 w == CollectionAdd(coll, ids, embeddings, cs, metadatas)
             IN  [err |-> "none", ret |-> n,
                  coll |-> w.coll, encodes |-> 1, adds |-> 1, ids |-> ids]

\* add_document_text that numbers each chunk by its position in the output of
\* split_text, before the blank chunks are dropped
add_document_text_gapped(full_text, source_name, coll, suffix, encodeOk) ==
    LET all == split_text(full_text, DEFAULT_CHUNK_SIZE, DEFAULT_OVERLAP)
        kept == SelectSeq([i \in 1..Len(all) |-> i], LAMBDA i : NonBlank(all[i]))
        cs == [i \in 1..Len(kept) |-> all[kept[i]]]
        n == Len(cs)
    IN  IF cs = <<>>
        THEN [err |-> "none", ret |-> 0, coll |-> coll, encodes |-> 0, adds |-> 0,
              ids |-> <<>>]
        ELSE IF ~encodeOk
        THEN [err |-> "EmbeddingFailure", ret |-> 0, coll |-> coll, encodes |-> 1,
              adds |-> 0, ids |-> <<>>]
        ELSE LET embeddings == [i \in 1..n |-> Encode(cs[i])]
                 ids == [i \in 1..n |-> <<sha1(source_name), kept[i] - 1, suffix[i]>>]
                 metadatas == [i \in 1..n |->
                                  [source |-> source_name, chunk |-> kept[i] - 1]]
                 w == CollectionAdd(coll, ids, embeddings, cs, metadatas)
             IN  [err |-> w.err, ret |-> IF w.err = "none" THEN n ELSE 0,
                  coll |-> w.coll, encodes |-> 1, adds |-> 1, ids |-> ids]

\* lines 184-205: add_document_text.  suffix[i] is the uuid drawn for chunk i,
\* encodeOk whether the embedding call succeeds.  err # "none" is the exception
\* that leaves the function.
add_document_text(full_text, source_name, coll, suffix, encodeOk) ==
    LET cs == RetainedChunks(full_text)
        n == Len(cs)
    IN  IF cs = <<>>
        THEN [err |-> "none", ret |-> 0, coll |-> coll, encodes |-> 0, adds |-> 0,
              ids |-> <<>>]
        ELSE IF ~encodeOk
        THEN [err |-> "EmbeddingFailure", ret |-> 0, coll |-> coll, encodes |-> 1,
              adds |-> 0, ids |-> <<>>]
        ELSE LET embeddings == [i \in 1..n |-> Encode(cs[i])]
                 ids == [i \in 1..n |-> <<sha1(source_name), i - 1, suffix[i]>>]
                 metadatas == [i \in 1..n |-> [source |-> source_name, chunk |-> i - 1]]
                 w == CollectionAdd(coll, ids, embeddings, cs, metadatas)
             IN  [err |-> w.err, ret |-> IF w.err = "none" THEN n ELSE 0,
                  coll |-> w.coll, encodes |-> 1, adds |-> 1, ids |-> ids]

\* add_document_text that writes each chunk with a collection.add call of its own
AddCallsPerChunk(ids, embeddings, documents, metadatas) ==
    [i \in 1..Len(ids) |->
        [ids |-> <<ids[i]>>, embeddings |-> <<embeddings[i]>>,
         documents |-> <<documents[i]>>, metadatas |-> <<metadatas[i]>>]]

\* lines 202-204: the collection.add calls add_document_text makes for its
\* chunks, in order: one call with all of them
AddCalls(ids, embeddings, documents, metadatas) ==
    <<[ids |-> ids, embeddings |-> embeddings, documents |-> documents,
       metadatas |-> metadatas]>>

\* line 214
IsBlankText(t) == t = <<>> \/ Len(strip(t)) = 0

\* what a call that raised returns: nothing
NoReturn == <<>>

\* lines 208-217: ingest_file_to_chroma
ingest_file_to_chroma(pathExt, content, source_name, coll, ocr, suffix, encodeOk) ==
    LET ex == extract_text_generic(pathExt, content, ocr)
    IN  IF ex.raised
        THEN [err |-> "ExtractionFailure", ret |-> NoReturn, coll |-> coll,
              encodes |-> 0, adds |-> 0, ids |-> <<>>, ex |-> ex]
        ELSE IF IsBlankText(ex.text)
        THEN [err |-> "none", ret |-> <<0, ex.name>>, coll |-> coll,
              encodes |-> 0, adds |-> 0, ids |-> <<>>, ex |-> ex]
        ELSE LET a == add_document_text(ex.text, source_name, coll, suffix, encodeOk)
             IN  [err |-> a.err,
                  ret |-> IF a.err = "none" THEN <<a.ret, ex.name>> ELSE NoReturn,
                  coll |-> a.coll,
                  encodes |-> a.encodes, adds |-> a.adds, ids |-> a.ids, ex |-> ex]

\* the index positions of coll ordered nearest-first to vector q; entries at the
\* same distance come in insertion order, or in reverse insertion order
NearestFirst(coll, q, reverseTies) ==
    LET n == Len(coll)
        d(i) == Distance(coll[i].embedding, q)
        before(i, j) == \/ d(i) < d(j)
                        \/ d(i) = d(j) /\ (IF reverseTies THEN i > j ELSE i < j)
    IN  [p \in 1..n |-> CHOOSE i \in 1..n :
                            Cardinality({j \in 1..n : before(j, i)}) = p - 1]

\* line 223: collection.query(query_embeddings=[q], n_results=top_k)
CollectionQuery(coll, q, top_k, reverseTies) ==
    LET order == NearestFirst(coll, q, reverseTies)
        m == IF top_k < Len(coll) THEN top_k ELSE Len(coll)
    IN  [documents |-> <<[p \in 1..m |-> coll[order[p]].document]>>,
         positions |-> <<[p \in 1..m |-> order[p]]>>]

\* "".join(parts)
RECURSIVE Concat(_)
Concat(parts) == IF parts = <<>> THEN <<>> ELSE parts[1] \o Concat(Tail(parts))

\* get_relevant_chunks that joins the documents without the newline
get_relevant_chunks_nosep(query, top_k, coll, encodeOk, reverseTies) ==
    IF ~encodeOk
    THEN [err |-> "EmbeddingFailure", ret |-> <<>>, positions |-> <<>>]
    ELSE LET q_emb == Encode(query)
             results == CollectionQuery(coll, q_emb, top_k, reverseTies)
         IN  [err |-> "none",
              ret |-> IF results.documents # <<>> THEN Concat(results.documents[1])
                      ELSE <<>>,
              positions |-> results.positions[1]]

\* lines 220-228: get_relevant_chunks
get_relevant_chunks(query, top_k, coll, encodeOk, reverseTies) ==
    IF ~encodeOk
    THEN [err |-> "EmbeddingFailure", ret |-> <<>>, positions |-> <<>>]
    ELSE LET q_emb == Encode(query)
             results == CollectionQuery(coll, q_emb, top_k, reverseTies)
         IN  [err |-> "none",
              ret |-> IF results.documents # <<>> THEN JoinNL(results.documents[1])
                      ELSE <<>>,
              positions |-> results.positions[1]]

(* ------------------------------ the views ------------------------------- *)

\* an absent or blank request field
NoFile == [name |-> "", content |-> Raising]

\* views.py line 230-231: FileUploadSerializer, file is required
FileUploadSerializer_is_valid(data) == data.file # NoFile

\* os.path.splitext of the stored path of an upload named a.txt or b.txt
Ext(name) == ".txt"

\* IngestedDocument.objects.create(...): one more row
CreateDocument(docs, original_name, num_chunks, status, error_message) ==
    Append(docs, [original_name |-> original_name, num_chunks |-> num_chunks,
                  status |-> status, error_message |-> error_message])

\* DocumentUploadView.post that leaves the status of the record to the default
\* of the model field
DocumentUploadView_post_default(data, docs, coll, ocr, suffix, encodeOk) ==
    IF ~FileUploadSerializer_is_valid(data)
    THEN [status |-> 400, docs |-> docs, coll |-> coll, ingest |-> <<>>]
    ELSE LET up_file == data.file
             r == ingest_file_to_chroma(Ext(up_file.name), up_file.content,
                                        up_file.name, coll, ocr, suffix, encodeOk)
         IN  IF r.err = "none"
             THEN LET num_chunks == r.ret[1]
                  IN  [status |-> 201,
                       docs |-> CreateDocument(docs, up_file.name, num_chunks,
                                    "processed",
                                    IF num_chunks > 0 THEN ""
                                    ELSE "No text found or OCR unavailable"),
                       coll |-> r.coll, ingest |-> <<r>>]
             ELSE [status |-> 500,
                   docs |-> CreateDocument(docs, up_file.name, 0, "error", r.err),
                   coll |-> r.coll, ingest |-> <<r>>]

\* views.py lines 229-292: DocumentUploadView.post.  str(e) of the exception of
\* the ingest is its name.  ingest holds the outcome of the ingest call, if one
\* was made.
DocumentUploadView_post(data, docs, coll, ocr, suffix, encodeOk) ==
    IF ~FileUploadSerializer_is_valid(data)
    THEN [status |-> 400, docs |-> docs, coll |-> coll, ingest |-> <<>>]
    ELSE LET up_file == data.file
             r == ingest_file_to_chroma(Ext(up_file.name), up_file.content,
                                        up_file.name, coll, ocr, suffix, encodeOk)
         IN  IF r.err = "none"
             THEN LET num_chunks == r.ret[1]
                  IN  [status |-> 201,
                       docs |-> CreateDocument(docs, up_file.name, num_chunks,
                                    IF num_chunks > 0 THEN "processed" ELSE "error",
                                    IF num_chunks > 0 THEN ""
                                    ELSE "No text found or OCR unavailable"),
                       coll |-> r.coll, ingest |-> <<r>>]
             ELSE [status |-> 500,
                   docs |-> CreateDocument(docs, up_file.name, 0, "error", r.err),
                   coll |-> r.coll, ingest |-> <<r>>]

\* ChatRequestSerializer: message is required and may not be blank
ChatRequestSerializer_is_valid(data) == data.message # <<>>

\* enums.py: MessageBy, and str.lower() on its values
USER == "USER"

ASSISTANT == "ASSISTANT"

LowerRole(message_by) == IF message_by = USER THEN "user" ELSE "assistant"

\* views.py lines 117-120: the system prompt of the configured domain
SystemPrompt == <<"g", "e", "n", "e", "r", "a", "l">>

\* views.py lines 357-377: the two messages of CustomChatbotView, which embed
\* the retrieved chunks and the question
RagSystemPrompt(retrieved_chunks) == <<"r", "u", "l", "e", "s", ":">> \o retrieved_chunks

RagUserPrompt(retrieved_chunks, user_message) ==
    <<"d", "o", "c", "s", ":", "\n">> \o retrieved_chunks
        \o <<"\n", "\n", "q", ":", " ">> \o user_message

ChatMessage(role, content) == [role |-> role, content |-> content]

\* the session store: the ChatSession rows by session_id, and the Chat rows in
\* the order of created_at
EmptyStore == [sessions |-> <<>>, chats |-> <<>>]

HasSession(db, sid) == \E i \in 1..Len(db.sessions) : db.sessions[i].session_id = sid

\* ChatSession.objects.get_or_create(session_id=sid, defaults={label, last_interaction})
get_or_create(db, sid, label, now) ==
    IF HasSession(db, sid)
    THEN [db |-> db, created |-> FALSE]
    ELSE [db |-> [db EXCEPT !.sessions =
                     Append(@, [session_id |-> sid, label |-> label,
                                last_interaction |-> now])],
          created |-> TRUE]

\* Chat.objects.create(session=, message_by=, message=)
CreateChat(db, sid, message_by, message) ==
    [db EXCEPT !.chats = Append(@, [session |-> sid, message_by |-> message_by,
                                    message |-> message])]

\* chat_session.last_interaction = timezone.now(); chat_session.save()
SaveSession(db, sid, now) ==
    [db EXCEPT !.sessions =
        [i \in 1..Len(@) |-> IF @[i].session_id = sid
                             THEN [@[i] EXCEPT !.last_interaction = now]
                             ELSE @[i]]]

\* the rows a QuerySet Chat.objects.filter(session=sid) yields when it is
\* iterated on store db: Meta.ordering is created_at
FilterChats(db, sid) == SelectSeq(db.chats, LAMBDA c : c.session = sid)

\* lines 139-142: the list comprehension over the rows
History(rows) ==
    [i \in 1..Len(rows) |->
        ChatMessage(LowerRole(rows[i].message_by), rows[i].message)]

\* the outcome of a request that did not get as far as the completion call
NotCalled(status, db, raised, sid, created, writes) ==
    [status |-> status, db |-> db, raised |-> raised, session |-> sid,
     created |-> created, writes |-> writes, called |-> FALSE, sent |-> <<>>,
     reply |-> <<>>]

\* with transaction.atomic() that commits what was written before the exception
transaction_autocommit(before, r) == r.db

\* views.py lines 85 and 307: with transaction.atomic().  The writes of the
\* block are committed when it is left normally and rolled back when an
\* exception leaves it.
transaction_atomic(before, r) == IF r.raised THEN before ELSE r.db

\* views.py lines 89-185: the block of ChatbotView.post.  uuid is the value of
\* uuid.uuid4(), groq what the completion call does, now the time.
ChatbotView_block(data, db, uuid, groq, now) ==
    IF ~ChatRequestSerializer_is_valid(data)
    THEN NotCalled(400, db, FALSE, "", FALSE, 0)
    ELSE LET user_message == data.message
             sid == IF data.session_id # "" THEN data.session_id ELSE uuid
             g == get_or_create(db, sid, user_message, now)
             nw == IF g.created THEN 1 ELSE 0
             db2 == CreateChat(g.db, sid, USER, user_message)
             \* chats is a lazy QuerySet made on line 125 and first iterated on
             \* line 141, after the row of line 130 was written
             chats_rows == FilterChats(db2, sid)
             conversation_history ==
                 Append(History(chats_rows), ChatMessage(LowerRole(USER), user_message))
             messages_for_llm ==
                 <<ChatMessage("system", SystemPrompt)>> \o conversation_history
         IN  IF groq.raises
             THEN [status |-> 0, db |-> db2, raised |-> TRUE, session |-> sid,
                   created |-> g.created, writes |-> nw + 1, called |-> TRUE,
                   sent |-> messages_for_llm, reply |-> <<>>]
             ELSE LET ai_reply == groq.text
                      db3 == CreateChat(db2, sid, ASSISTANT, ai_reply)
                  IN  [status |-> 200, db |-> SaveSession(db3, sid, now),
                       raised |-> FALSE, session |-> sid, created |-> g.created,
                       writes |-> nw + 3, called |-> TRUE,
                       sent |-> messages_for_llm, reply |-> ai_reply]

\* views.py lines 83-192: ChatbotView.post
ChatbotView_post(data, db, uuid, groq, now) ==
    LET r == ChatbotView_block(data, db, uuid, groq, now)
    IN  [r EXCEPT !.db = transaction_atomic(db, r),
                  !.status = IF r.raised THEN 400 ELSE r.status]

\* views.py lines 308-411: the block of CustomChatbotView.post
CustomChatbotView_block(data, db, uuid, groq, now, coll, encodeOk, reverseTies) ==
    IF ~ChatRequestSerializer_is_valid(data)
    THEN NotCalled(400, db, FALSE, "", FALSE, 0)
    ELSE LET user_message == data.message
             sid == IF data.session_id # "" THEN data.session_id ELSE uuid
             g == get_or_create(db, sid, user_message, now)
             nw == IF g.created THEN 1 ELSE 0
             retrieved == get_relevant_chunks(user_message, CHAT_TOP_K, coll,
                                              encodeOk, reverseTies)
         IN  IF retrieved.err # "none"
             THEN NotCalled(0, g.db, TRUE, sid, g.created, nw)
             ELSE LET db2 == CreateChat(g.db, sid, USER, user_message)
                      messages_for_llm ==
                          <<ChatMessage("system", RagSystemPrompt(retrieved.ret)),
                            ChatMessage("user",
                                        RagUserPrompt(retrieved.ret, user_message))>>
                  IN  IF groq.raises
                      THEN [status |-> 0, db |-> db2, raised |-> TRUE,
                            session |-> sid, created |-> g.created,
                            writes |-> nw + 1, called |-> TRUE,
                            sent |-> messages_for_llm, reply |-> <<>>]
                      ELSE LET ai_reply == groq.text
                               db3 == CreateChat(db2, sid, ASSISTANT, ai_reply)
                           IN  [status |-> 200, db |-> SaveSession(db3, sid, now),
                                raised |-> FALSE, session |-> sid,
                                created |-> g.created, writes |-> nw + 3,
                                called |-> TRUE, sent |-> messages_for_llm,
                                reply |-> ai_reply]

\* views.py lines 305-417: CustomChatbotView.post
CustomChatbotView_post(data, db, uuid, groq, now, coll, encodeOk, reverseTies) ==
    LET r == CustomChatbotView_block(data, db, uuid, groq, now, coll, encodeOk,
                                     reverseTies)
    IN  [r EXCEPT !.db = transaction_atomic(db, r),
                  !.status = IF r.raised THEN 400 ELSE r.status]

(* ------------------------------- state ---------------------------------- *)

VARIABLES
    text, chunk_size, overlap,   \* the arguments of the running split_text call
    paragraphs, buf, chunks,     \* its locals
    pidx, cidx, start,           \* position in the three loops
    final_chunks,                \* its result so far
    origins,                     \* for each final chunk, the chunk it was cut from and where
    pc,                          \* position in split_text
    OCR_AVAILABLE,               \* line 24/26, set when the module is imported
    collection,                  \* the entries of the Chroma collection, in insertion order
    encode_calls,                \* calls of embedding_model.encode so far
    add_calls,                   \* calls of collection.add so far
    ncalls,                      \* calls and requests so far
    last,                        \* the arguments and the outcome of the last call
    documents,                   \* the IngestedDocument rows, in order of creation
    store,                       \* the ChatSession and Chat rows
    procs                        \* the calls that run concurrently, by thread

splitVars == <<text, chunk_size, overlap, paragraphs, buf, chunks, pidx, cidx,
               start, final_chunks, origins, pc>>

ragVars == <<OCR_AVAILABLE, collection, encode_calls, add_calls, ncalls, last>>

webVars == <<documents, store, procs>>

vars == <<splitVars, ragVars, webVars>>

NoCall == [kind |-> "none"]

\* the pipeline before its first call
RagIdle ==
    /\ collection = <<>>
    /\ encode_calls = 0
    /\ add_calls = 0
    /\ ncalls = 0
    /\ last = NoCall

\* the threads that ingest, one call each, and the threads that retrieve
Ingesters == {"i1", "i2"}

Retrievers == {"r1"}

\* a thread before its call.  pending are the collection.add calls it still has
\* to make, mine the ids it has stored, seen the ids each of its retrieves got.
IdleThread ==
    [pc |-> "idle", pending |-> <<>>, mine |-> {}, seen |-> <<>>, err |-> "none",
     ret |-> NoReturn, n |-> 0, extractor |-> ""]

\* no upload and no chat request was served
WebIdle ==
    /\ documents = <<>>
    /\ store = EmptyStore
    /\ procs = [p \in Ingesters \cup Retrievers |-> IdleThread]

\* no split_text call is being traced
SplitIdle ==
    /\ text = <<>>
    /\ chunk_size = DEFAULT_CHUNK_SIZE
    /\ overlap = DEFAULT_OVERLAP
    /\ paragraphs = <<>>
    /\ buf = <<>>
    /\ chunks = <<>>
    /\ pidx = 1
    /\ cidx = 1
    /\ start = 0
    /\ final_chunks = <<>>
    /\ origins = <<>>
    /\ pc = "idle"

(* --------------------- split_text, statement by statement --------------- *)

\* longer texts: paragraphs that are hard-sliced next to paragraphs that are not
SampleTexts ==
    {<<"a", "b", "a", "b", "\n", "b">>,
     <<"b", "\n", "a", "a", "b", "a", "b">>,
     <<"a", "b", " ", "a", "\r", "\n", "b", "\n", "\n", " ", "a">>}

SplitInit ==
    /\ text \in Strs(MaxLen) \cup SampleTexts
    /\ chunk_size \in 1..MaxChunk
    /\ overlap \in 0..MaxChunk
    /\ paragraphs = <<>>
    /\ buf = <<>>
    /\ chunks = <<>>
    /\ pidx = 1
    /\ cidx = 1
    /\ start = 0
    /\ final_chunks = <<>>
    /\ origins = <<>>
    /\ pc = "start"
    /\ OCR_AVAILABLE = TRUE
    /\ RagIdle
    /\ WebIdle

\* lines 49-51
SplitParagraphs ==
    /\ pc = "start"
    /\ paragraphs' = Paragraphs(text)
    /\ pc' = "accumulate"
    /\ UNCHANGED <<text, chunk_size, overlap, buf, chunks, pidx, cidx, start,
                   final_chunks, origins>>
    /\ UNCHANGED <<ragVars, webVars>>

\* lines 52-58
AccumulateStep ==
    /\ pc = "accumulate"
    /\ pidx <= Len(paragraphs)
    /\ LET st == AccBody([buf |-> buf, chunks |-> chunks], paragraphs[pidx], chunk_size)
       IN  /\ buf' = st.buf
           /\ chunks' = st.chunks
    /\ pidx' = pidx + 1
    /\ UNCHANGED <<text, chunk_size, overlap, paragraphs, cidx, start,
                   final_chunks, origins, pc>>
    /\ UNCHANGED <<ragVars, webVars>>

\* lines 59-63
FlushStep ==
    /\ pc = "accumulate"
    /\ pidx > Len(paragraphs)
    /\ chunks' = Flush([buf |-> buf, chunks |-> chunks])
    /\ pc' = "slice"
    /\ UNCHANGED <<text, chunk_size, overlap, paragraphs, buf, pidx, cidx, start,
                   final_chunks, origins>>
    /\ UNCHANGED <<ragVars, webVars>>

\* lines 64-66
KeepChunk ==
    /\ pc = "slice"
    /\ cidx <= Len(chunks)
    /\ Len(chunks[cidx]) <= chunk_size
    /\ final_chunks' = Append(final_chunks, chunks[cidx])
    /\ origins' = Append(origins, [chunk |-> cidx, start |-> 0, sliced |-> FALSE])
    /\ cidx' = cidx + 1
    /\ UNCHANGED <<text, chunk_size, overlap, paragraphs, buf, chunks, pidx, start, pc>>
    /\ UNCHANGED <<ragVars, webVars>>

\* lines 64-68
EnterWhile ==
    /\ pc = "slice"
    /\ cidx <= Len(chunks)
    /\ Len(chunks[cidx]) > chunk_size
    /\ start' = 0
    /\ pc' = "while"
    /\ UNCHANGED <<text, chunk_size, overlap, paragraphs, buf, chunks, pidx, cidx,
                   final_chunks, origins>>
    /\ UNCHANGED <<ragVars, webVars>>

\* lines 69-72
WhileStep ==
    /\ pc = "while"
    /\ start < Len(chunks[cidx])
    /\ overlap < chunk_size \/ Len(final_chunks) < MaxOut
    /\ LET b == SliceBody(chunks[cidx], start, chunk_size, overlap)
       IN  /\ final_chunks' = Append(final_chunks, b.out)
           /\ start' = b.start
    /\ origins' = Append(origins, [chunk |-> cidx, start |-> start, sliced |-> TRUE])
    /\ UNCHANGED <<text, chunk_size, overlap, paragraphs, buf, chunks, pidx, cidx, pc>>
    /\ UNCHANGED <<ragVars, webVars>>

\* line 69, the loop condition fails
ExitWhile ==
    /\ pc = "while"
    /\ start >= Len(chunks[cidx])
    /\ cidx' = cidx + 1
    /\ pc' = "slice"
    /\ UNCHANGED <<text, chunk_size, overlap, paragraphs, buf, chunks, pidx, start,
                   final_chunks, origins>>
    /\ UNCHANGED <<ragVars, webVars>>

\* line 73
SplitReturn ==
    /\ pc = "slice"
    /\ cidx > Len(chunks)
    /\ pc' = "done"
    /\ UNCHANGED <<text, chunk_size, overlap, paragraphs, buf, chunks, pidx, cidx,
                   start, final_chunks, origins>>
    /\ UNCHANGED <<ragVars, webVars>>

SplitNext ==
    \/ SplitParagraphs
    \/ AccumulateStep
    \/ FlushStep
    \/ KeepChunk
    \/ EnterWhile
    \/ WhileStep
    \/ ExitWhile
    \/ SplitReturn

SplitSpec == SplitInit /\ [][SplitNext]_vars

\* the calls with 0 <= overlap < chunk_size
SplitFairInit == SplitInit /\ overlap < chunk_size

\* split_text as a call that runs on: a Python call that can take a step takes it
SplitFairSpec == SplitFairInit /\ [][SplitNext]_vars /\ WF_vars(SplitNext)

\* the statement-by-statement run returns what the operator split_text computes
SplitAgrees ==
    (pc = "done" /\ overlap < chunk_size) => final_chunks = split_text(text, chunk_size, overlap)

(* ------------------------- the pipeline's calls ------------------------- *)

\* a paragraph of 1502 characters whose middle hard-sliced window is all spaces
LongText == <<"a">> \o Rep(" ", 1500) \o <<"b">>

\* the files ingested: the extension of the path, and what the file does to the
\* extractor that reads it
File(ext, content) == [ext |-> ext, content |-> content]

Files ==
    {File(".PDF", Raising),
     File(".gif", Raising),
     File(".bin", Returning(<<" ", "\n", " ">>)),
     File(".txt", Returning(<<"b", "\r", "\n", "a", "b">>)),
     File(".md", Returning(LongText))}

QueryTexts == {<<"a">>, <<"b", "b">>}

TopKs == {1, CHAT_TOP_K}

Init ==
    /\ SplitIdle
    /\ OCR_AVAILABLE \in BOOLEAN
    /\ RagIdle
    /\ WebIdle

\* one call of ingest_file_to_chroma(path, source_name).  The embedding model
\* answers and the uuids are drawn only in the calls that reach them.
Ingest(file, source_name) ==
    /\ ncalls < MaxCalls
    /\ LET ex == extract_text_generic(file.ext, file.content, OCR_AVAILABLE)
           n == IF ex.raised \/ IsBlankText(ex.text) THEN 0
                ELSE Len(RetainedChunks(ex.text))
       IN  \E encodeOk \in (IF n = 0 THEN {TRUE} ELSE BOOLEAN) :
           \E suffix \in [1..(IF encodeOk THEN n ELSE 0) -> Suffixes] :
           \E r \in {ingest_file_to_chroma(file.ext, file.content, source_name,
                                           collection, OCR_AVAILABLE, suffix,
                                           encodeOk)} :
                 /\ collection' = r.coll
                 /\ encode_calls' = encode_calls + r.encodes
                 /\ add_calls' = add_calls + r.adds
                 /\ last' = [kind |-> "ingest", source |-> source_name,
                             text |-> r.ex.text, extractor |-> r.ex.name,
                             invoked |-> r.ex.invoked, caught |-> r.ex.caught,
                             encodeOk |-> encodeOk,
                             err |-> r.err, ret |-> r.ret, ids |-> r.ids,
                             encodes |-> r.encodes, adds |-> r.adds,
                             before |-> Len(collection)]
    /\ ncalls' = ncalls + 1
    /\ UNCHANGED <<OCR_AVAILABLE, splitVars, webVars>>

\* one call of get_relevant_chunks(query, top_k)
Retrieve(query, top_k) ==
    /\ ncalls < MaxCalls
    /\ \E encodeOk \in BOOLEAN :
       \E reverseTies \in (IF encodeOk THEN BOOLEAN ELSE {FALSE}) :
       \E r \in {get_relevant_chunks(query, top_k, collection, encodeOk, reverseTies)} :
             last' = [kind |-> "retrieve", query |-> query, top_k |-> top_k,
                      encodeOk |-> encodeOk, err |-> r.err, ret |-> r.ret,
                      positions |-> r.positions, before |-> Len(collection)]
    /\ encode_calls' = encode_calls + 1
    /\ ncalls' = ncalls + 1
    /\ UNCHANGED <<OCR_AVAILABLE, collection, add_calls, splitVars, webVars>>

Next ==
    \/ \E f \in Files, s \in Sources : Ingest(f, s)
    \/ \E q \in QueryTexts, k \in TopKs : Retrieve(q, k)

Spec == Init /\ [][Next]_vars

(* ------------------------------ the requests ---------------------------- *)

\* the uploads: a.txt and b.txt with contents that make the extractor raise,
\* that are blank, that give one chunk and that give three; and no file
UploadContents ==
    {Raising,
     Returning(<<" ", "\n", " ">>),
     Returning(<<"b", "\r", "\n", "a", "b">>),
     Returning(LongText)}

UploadRequests ==
    {[file |-> NoFile]}
        \cup {[file |-> [name |-> n, content |-> c]] : n \in Sources, c \in UploadContents}

\* one POST to DocumentUploadView
Upload(data) ==
    /\ ncalls < MaxCalls
    /\ LET ex == extract_text_generic(Ext(data.file.name), data.file.content,
                                      OCR_AVAILABLE)
           n == IF ~FileUploadSerializer_is_valid(data) \/ IsBlankText(ex.text) THEN 0
                ELSE Len(RetainedChunks(ex.text))
       IN  \E encodeOk \in (IF n = 0 THEN {TRUE} ELSE BOOLEAN) :
           \E suffix \in [1..(IF encodeOk THEN n ELSE 0) -> Suffixes] :
           \E r \in {DocumentUploadView_post(data, documents, collection,
                                             OCR_AVAILABLE, suffix, encodeOk)} :
                 /\ documents' = r.docs
                 /\ collection' = r.coll
                 /\ encode_calls' = encode_calls
                        + (IF r.ingest = <<>> THEN 0 ELSE r.ingest[1].encodes)
                 /\ add_calls' = add_calls
                        + (IF r.ingest = <<>> THEN 0 ELSE r.ingest[1].adds)
                 /\ last' = [kind |-> "upload",
                             valid |-> FileUploadSerializer_is_valid(data),
                             name |-> data.file.name,
                             status |-> r.status,
                             attempts |-> Len(r.ingest),
                             err |-> IF r.ingest = <<>> THEN "none"
                                     ELSE r.ingest[1].err,
                             ret |-> IF r.ingest = <<>> THEN NoReturn
                                     ELSE r.ingest[1].ret,
                             before |-> Len(documents)]
    /\ ncalls' = ncalls + 1
    /\ UNCHANGED <<OCR_AVAILABLE, store, procs, splitVars>>

UploadNext == \E d \in UploadRequests : Upload(d)

UploadSpec == Init /\ [][UploadNext]_vars

\* the chat requests: a message or none, with the session_id s1 or none
SessionIds == {"s1"}

Uuids == {"u1", "u2"}

ChatRequests == [message : QueryTexts \cup {<<>>}, session_id : SessionIds \cup {""}]

\* what the completion service does with a call: it raises or it answers
GroqOutcomes == {Raising, Returning(<<"o", "k">>)}

ChatLast(view, data, r) ==
    [kind |-> "chat", view |-> view, message |-> data.message,
     valid |-> ChatRequestSerializer_is_valid(data), status |-> r.status,
     raised |-> r.raised, session |-> r.session, created |-> r.created,
     writes |-> r.writes, called |-> r.called, sent |-> r.sent,
     reply |-> r.reply, before |-> store]

\* one POST to ChatbotView.  The uuid is drawn and the completion service
\* answers only in the requests that reach them.
ChatbotPost(data) ==
    /\ ncalls < MaxCalls
    /\ LET valid == ChatRequestSerializer_is_valid(data)
       IN  \E uuid \in (IF valid /\ data.session_id = "" THEN Uuids ELSE {"u1"}) :
           \E groq \in (IF valid THEN GroqOutcomes ELSE {Raising}) :
           \E r \in {ChatbotView_post(data, store, uuid, groq, ncalls + 1)} :
                 /\ store' = r.db
                 /\ last' = ChatLast("ChatbotView", data, r)
    /\ ncalls' = ncalls + 1
    /\ UNCHANGED <<OCR_AVAILABLE, collection, encode_calls, add_calls, documents,
                   procs, splitVars>>

\* one POST to CustomChatbotView
CustomChatbotPost(data) ==
    /\ ncalls < MaxCalls
    /\ LET valid == ChatRequestSerializer_is_valid(data)
       IN  \E uuid \in (IF valid /\ data.session_id = "" THEN Uuids ELSE {"u1"}) :
           \E encodeOk \in (IF valid THEN BOOLEAN ELSE {TRUE}) :
           \E reverseTies \in (IF valid /\ encodeOk /\ Len(collection) > 1
                                THEN BOOLEAN ELSE {FALSE}) :
           \E groq \in (IF valid /\ encodeOk THEN GroqOutcomes ELSE {Raising}) :
           \E r \in {CustomChatbotView_post(data, store, uuid, groq, ncalls + 1,
                                            collection, encodeOk, reverseTies)} :
                 /\ store' = r.db
                 /\ last' = ChatLast("CustomChatbotView", data, r)
                 /\ encode_calls' = encode_calls + (IF valid THEN 1 ELSE 0)
    /\ ncalls' = ncalls + 1
    /\ UNCHANGED <<OCR_AVAILABLE, collection, add_calls, documents, procs, splitVars>>

\* the documents uploaded next to the chats
ChatUploads == {[file |-> [name |-> "a.txt", content |-> Returning(LongText)]]}

ChatNext ==
    \/ \E d \in ChatRequests : ChatbotPost(d)
    \/ \E d \in ChatRequests : CustomChatbotPost(d)
    \/ \E d \in ChatUploads : Upload(d)

ChatSpec == Init /\ [][ChatNext]_vars

(* --------------------------- concurrent calls --------------------------- *)

\* the files the threads ingest: one of three chunks, two of them retained, and
\* a blank one
ThreadFiles ==
    {File(".md", Returning(LongText)),
     File(".bin", Returning(<<" ", "\n", " ">>))}

\* rag_utils.py lines 208-216 and 189-200: thread p enters ingest_file_to_chroma and runs it
\* up to the first collection.add: extraction, chunking, embedding, ids and
\* metadata, none of which reads or writes the collection
IngestStart(p, file, source_name) ==
    /\ procs[p].pc = "idle"
    /\ LET ex == extract_text_generic(file.ext, file.content, OCR_AVAILABLE)
           chunks_kept == IF IsBlankText(ex.text) THEN <<>> ELSE RetainedChunks(ex.text)
           n == Len(chunks_kept)
       IN  IF n = 0
           THEN /\ procs' = [procs EXCEPT ![p].pc = "done", ![p].ret = <<0, ex.name>>]
                /\ UNCHANGED encode_calls
           ELSE \E encodeOk \in BOOLEAN :
                \E suffix \in [1..(IF encodeOk THEN n ELSE 0) -> Suffixes] :
                    /\ encode_calls' = encode_calls + 1
                    /\ procs' =
                         IF ~encodeOk
                         THEN [procs EXCEPT ![p].pc = "done",
                                            ![p].err = "EmbeddingFailure"]
                         ELSE LET embeddings == [i \in 1..n |-> Encode(chunks_kept[i])]
                                  ids == [i \in 1..n |->
                                             <<sha1(source_name), i - 1, suffix[i]>>]
                                  metadatas == [i \in 1..n |->
                                                   [source |-> source_name,
                                                    chunk |-> i - 1]]
                              IN  [procs EXCEPT
                                      ![p].pc = "adding",
                                      ![p].pending = AddCalls(ids, embeddings,
                                                              chunks_kept, metadatas),
                                      ![p].n = n,
                                      ![p].extractor = ex.name]
    /\ UNCHANGED <<OCR_AVAILABLE, collection, add_calls, ncalls, last, documents,
                   store, splitVars>>

\* rag_utils.py lines 202-205 and 217: thread p makes its next collection.add
\* call, and returns after the last one.  A call of the library is one step.
IngestAdd(p) ==
    /\ procs[p].pc = "adding"
    /\ LET call == Head(procs[p].pending)
           rest == Tail(procs[p].pending)
       IN  \E w \in {CollectionAdd(collection, call.ids, call.embeddings,
                                    call.documents, call.metadatas)} :
               /\ collection' = w.coll
               /\ procs' =
                    IF w.err # "none"
                    THEN [procs EXCEPT ![p].pc = "done", ![p].err = w.err,
                                       ![p].pending = <<>>]
                    ELSE [procs EXCEPT
                             ![p].mine = @ \cup {call.ids[i] : i \in 1..Len(call.ids)},
                             ![p].pending = rest,
                             ![p].pc = IF rest = <<>> THEN "done" ELSE "adding",
                             ![p].ret = IF rest = <<>>
                                        THEN <<procs[p].n, procs[p].extractor>>
                                        ELSE NoReturn]
    /\ add_calls' = add_calls + 1
    /\ UNCHANGED <<OCR_AVAILABLE, encode_calls, ncalls, last, documents, store,
                   splitVars>>

\* rag_utils.py lines 220-228: thread p calls get_relevant_chunks as the chat
\* view does; the collection is read by the one collection.query call
ThreadRetrieve(p, query) ==
    /\ Len(procs[p].seen) < MaxCalls
    /\ \E encodeOk \in BOOLEAN :
       \E reverseTies \in (IF encodeOk /\ Len(collection) > 1 THEN BOOLEAN
                            ELSE {FALSE}) :
       \E r \in {get_relevant_chunks(query, CHAT_TOP_K, collection, encodeOk,
                                     reverseTies)} :
           procs' = [procs EXCEPT
                        ![p].seen = Append(@, {collection[r.positions[i]].id :
                                                  i \in 1..Len(r.positions)}),
                        ![p].err = r.err]
    /\ encode_calls' = encode_calls + 1
    /\ UNCHANGED <<OCR_AVAILABLE, collection, add_calls, ncalls, last, documents,
                   store, splitVars>>

ThreadNext ==
    \/ \E p \in Ingesters, f \in ThreadFiles, s \in Sources : IngestStart(p, f, s)
    \/ \E p \in Ingesters : IngestAdd(p)
    \/ \E p \in Retrievers : ThreadRetrieve(p, <<"a">>)

ThreadSpec == Init /\ [][ThreadNext]_vars

(* ------------------------ properties of split_text ---------------------- *)

\* the final chunks cut from chunk number c, in order
WindowsOf(c) == {i \in 1..Len(origins) : origins[i].chunk = c /\ origins[i].sliced}

\* final chunk i is a hard-sliced window that follows another window of the same chunk
FollowsWindow(i) ==
    /\ i > 1
    /\ origins[i].sliced
    /\ origins[i - 1].sliced
    /\ origins[i - 1].chunk = origins[i].chunk

\* C1: with 0 <= overlap < chunk_size every chunk split_text returns has length at
\* most chunk_size; a paragraph longer than chunk_size is never returned whole.
C1_ChunkLengthBounded ==
    overlap < chunk_size =>
        \A i \in 1..Len(final_chunks) : Len(final_chunks[i]) <= chunk_size

\* a finished call that hard-sliced a paragraph longer than chunk_size
C1_Witness ==
    /\ pc = "done"
    /\ overlap < chunk_size
    /\ \E i \in 1..Len(chunks) : Len(chunks[i]) > chunk_size /\ WindowsOf(i) # {}

\* the part of final chunk i that is not shared with its predecessor, preceded by
\* the newline of a paragraph boundary
NonOverlapping(i) ==
    IF FollowsWindow(i)
    THEN PySlice(final_chunks[i],
                 IF overlap < Len(final_chunks[i]) THEN overlap ELSE Len(final_chunks[i]),
                 Len(final_chunks[i]))
    ELSE IF i > 1 THEN <<"\n">> \o final_chunks[i] ELSE final_chunks[i]

RECURSIVE Reconstruct(_)
Reconstruct(n) == IF n = 0 THEN <<>> ELSE Reconstruct(n - 1) \o NonOverlapping(n)

\* C5: with 0 <= overlap < chunk_size, concatenating the non-overlapping portions of
\* the returned chunks, in order, gives exactly the newline-joined sequence of the
\* trimmed non-empty paragraphs of the text.
C5_Reconstructs ==
    (pc = "done" /\ overlap < chunk_size) =>
        Reconstruct(Len(final_chunks)) = JoinNL(Paragraphs(text))

\* a finished call with overlapping windows followed by a chunk of another paragraph
C5_Witness ==
    /\ pc = "done"
    /\ 0 < overlap
    /\ overlap < chunk_size
    /\ \E i \in 2..Len(final_chunks) : FollowsWindow(i)
    /\ \E i \in 2..Len(final_chunks) : ~FollowsWindow(i)

\* C9: an overlap >= chunk_size is rejected before any chunking call, so the
\* hard-slice loop never runs with an advance chunk_size - overlap <= 0.
C9_LoopAlwaysAdvances == pc = "while" => chunk_size - overlap > 0

\* C10: the windows of a hard-sliced paragraph start at multiples of
\* chunk_size - overlap and cover it; every window but the last has length
\* chunk_size and adjacent windows share exactly overlap characters.
C10_FixedWindows ==
    (pc = "done" /\ overlap < chunk_size) =>
        \A c \in 1..Len(chunks) :
            LET w == WindowsOf(c) IN
            w # {} =>
                /\ \A i \in w : origins[i].start = (i - Min(w)) * (chunk_size - overlap)
                /\ origins[Max(w)].start + Len(final_chunks[Max(w)]) = Len(chunks[c])
                /\ \A i \in w \ {Max(w)} : Len(final_chunks[i]) = chunk_size
                /\ \A i \in w \ {Min(w)} :
                       /\ Len(final_chunks[i]) >= overlap
                       /\ origins[i - 1].start + Len(final_chunks[i - 1])
                              - origins[i].start = overlap
                       /\ PySlice(final_chunks[i - 1], chunk_size - overlap, chunk_size)
                              = PySlice(final_chunks[i], 0, overlap)

\* what the hard-slice loop does guarantee: window starts at multiples of the
\* advance, full cover, and no window longer than chunk_size
WindowsCover ==
    (pc = "done" /\ overlap < chunk_size) =>
        \A c \in 1..Len(chunks) :
            LET w == WindowsOf(c) IN
            w # {} =>
                /\ \A i \in w : origins[i].start = (i - Min(w)) * (chunk_size - overlap)
                /\ origins[Max(w)].start + Len(final_chunks[Max(w)]) = Len(chunks[c])
                /\ \A i \in w : final_chunks[i] =
                       PySlice(chunks[c], origins[i].start, origins[i].start + chunk_size)

(* ------------------------ properties of the pipeline -------------------- *)

\* the ids stored before the last call
IdsBefore == IdsOf(SubSeq(collection, 1, last.before))

\* the last ingest minted an id that was already stored
MintedStoredId == \E i \in 1..Len(last.ids) : last.ids[i] \in IdsBefore

AllWhitespace(t) == \A i \in 1..Len(t) : t[i] \in Whitespace

\* C2: every id an ingest writes is distinct from every id already stored, so a
\* re-ingest of the same source never raises an index write conflict.
C2_IdsNeverCollide ==
    last.kind = "ingest" => ~MintedStoredId /\ last.err # "IndexWriteConflict"

\* the chunks of the text of the last ingest that are not empty after trimming
NonEmptyChunkCount ==
    LET cs == split_text(last.text, DEFAULT_CHUNK_SIZE, DEFAULT_OVERLAP)
    IN  Cardinality({i \in 1..Len(cs) : ~AllWhitespace(cs[i])})

\* C3: a successful ingest adds as many entries to the index as the extracted text
\* has chunks that are non-empty after trimming, and returns that number.
C3_EntriesEqualNonEmptyChunks ==
    (last.kind = "ingest" /\ last.err = "none") =>
        /\ Len(collection) - last.before = NonEmptyChunkCount
        /\ last.ret[1] = NonEmptyChunkCount

\* a successful ingest whose text has a chunk that is dropped as whitespace
C3_Witness ==
    /\ last.kind = "ingest"
    /\ last.err = "none"
    /\ last.ret[1] > 0
    /\ last.ret[1] < Len(split_text(last.text, DEFAULT_CHUNK_SIZE, DEFAULT_OVERLAP))
    /\ Len(collection) = last.before + last.ret[1]

\* C4: when extraction yields empty or whitespace-only text, the ingest returns
\* (0, extractor name) and makes no embedding call and no index write.
C4_BlankTextLeavesIndex ==
    [][(ncalls' = ncalls + 1 /\ last'.kind = "ingest" /\ AllWhitespace(last'.text)) =>
           /\ last'.err = "none"
           /\ last'.ret = <<0, last'.invoked[1]>>
           /\ collection' = collection
           /\ encode_calls' = encode_calls
           /\ add_calls' = add_calls]_vars

\* an ingest of a file whose extractor raised, into an index that holds entries
C4_Witness ==
    /\ last.kind = "ingest"
    /\ last.caught
    /\ AllWhitespace(last.text)
    /\ last.ret = <<0, last.extractor>>
    /\ Len(collection) > 0

\* C6: extract_text_generic selects and invokes exactly one extractor and never
\* lets its exception out: when it raises the result is ("", its name).
C6_ExtractionNeverRaises ==
    last.kind = "ingest" =>
        /\ Len(last.invoked) = 1
        /\ last.invoked[1] = last.extractor
        /\ last.err # "ExtractionFailure"
        /\ last.caught => last.text = <<>>

\* an ingest whose extractor raised
C6_Witness ==
    /\ last.kind = "ingest"
    /\ last.caught
    /\ last.text = <<>>
    /\ last.invoked = <<"extract_text_from_pdf">>

\* distance of the entry at position i of the index to the last query
QueryDistance(i) == Distance(collection[i].embedding, Encode(last.query))

\* C7: a retrieve on an index of n entries returns the documents of the
\* min(top_k, n) entries nearest to the query, nearest first, joined by newlines;
\* all n when top_k exceeds n, and the empty string without error when n = 0.
C7_NearestFirst ==
    (last.kind = "retrieve" /\ last.encodeOk) =>
        LET n == Len(collection)
            m == IF last.top_k < n THEN last.top_k ELSE n
            pos == last.positions
        IN  /\ last.err = "none"
            /\ Len(pos) = m
            /\ \A p \in 1..m : pos[p] \in 1..n
            /\ \A p, r \in 1..m : p < r =>
                   pos[p] # pos[r] /\ QueryDistance(pos[p]) <= QueryDistance(pos[r])
            /\ \A i \in 1..n : (\A p \in 1..m : pos[p] # i) =>
                   \A p \in 1..m : QueryDistance(pos[p]) <= QueryDistance(i)
            /\ last.ret = JoinNL([p \in 1..m |-> collection[pos[p]].document])
            /\ n = 0 => last.ret = <<>>

\* a retrieve with top_k above the number of entries that returns them in an
\* order other than insertion order
C7_Witness ==
    /\ last.kind = "retrieve"
    /\ last.err = "none"
    /\ last.top_k > Len(collection)
    /\ Len(last.positions) = Len(collection)
    /\ Len(collection) >= 2
    /\ last.positions[1] > last.positions[2]
    /\ QueryDistance(last.positions[1]) < QueryDistance(last.positions[2])

\* C8: a failure of the embedding step or of the index write leaves the ingest as
\* an error; a returned chunk count means the write completed; nothing is retried.
C8_FailurePropagates ==
    last.kind = "ingest" =>
        /\ (last.encodes > 0 /\ ~last.encodeOk) => last.err = "EmbeddingFailure"
        /\ (last.adds > 0 /\ MintedStoredId) => last.err = "IndexWriteConflict"
        /\ last.err # "none" => last.ret = NoReturn /\ Len(collection) = last.before
        /\ (last.err = "none" /\ last.ret[1] > 0) =>
               /\ Len(collection) = last.before + last.ret[1]
               /\ \A i \in 1..last.ret[1] : collection[last.before + i].id = last.ids[i]
        /\ last.encodes <= 1
        /\ last.adds <= 1

\* an ingest whose index write raised
C8_Witness ==
    /\ last.kind = "ingest"
    /\ last.adds = 1
    /\ last.err = "IndexWriteConflict"
    /\ last.ret = NoReturn

\* the i-th chunk of the last ingested text that is not blank, counting from 1
RECURSIVE NthNonBlank(_, _)
NthNonBlank(cs, i) ==
    IF NonBlank(Head(cs))
    THEN IF i = 1 THEN Head(cs) ELSE NthNonBlank(Tail(cs), i - 1)
    ELSE NthNonBlank(Tail(cs), i)

\* C11: the n entries written by one ingest are aligned by position: the i-th
\* entry carries the id, the embedding, the text and the metadata of the i-th
\* retained chunk, and the metadata is {source, chunk: i} with ordinals 0..n-1.
C11_EntriesAligned ==
    (last.kind = "ingest" /\ last.err = "none" /\ last.ret[1] > 0) =>
        LET n == last.ret[1]
            all == split_text(last.text, DEFAULT_CHUNK_SIZE, DEFAULT_OVERLAP)
        IN  /\ Len(collection) = last.before + n
            /\ \A i \in 0..(n - 1) :
                   LET e == collection[last.before + i + 1]
                       c == NthNonBlank(all, i + 1)
                   IN  /\ e.document = c
                       /\ e.embedding = Encode(c)
                       /\ e.id = last.ids[i + 1]
                       /\ e.id[1] = sha1(last.source)
                       /\ e.id[2] = i
                       /\ e.metadata = [source |-> last.source, chunk |-> i]

\* an ingest that wrote two entries with different texts and left out a blank
\* chunk that lies between them
C11_Witness ==
    /\ last.kind = "ingest"
    /\ last.err = "none"
    /\ last.ret[1] = 2
    /\ Len(split_text(last.text, DEFAULT_CHUNK_SIZE, DEFAULT_OVERLAP)) = 3
    /\ collection[last.before + 1].document # collection[last.before + 2].document
    /\ collection[last.before + 2].metadata.chunk = 1

(* ------------------ accumulation and termination of split_text ---------- *)

HasNewline(c) == \E i \in 1..Len(c) : c[i] = "\n"

\* the first paragraph of a chunk: its characters before the first newline
FirstParagraph(c) ==
    IF HasNewline(c)
    THEN SubSeq(c, 1, (CHOOSE i \in 1..Len(c) :
                          c[i] = "\n" /\ \A j \in 1..(i - 1) : c[j] # "\n") - 1)
    ELSE c

\* the chunks are the paragraphs in order, cut into maximal runs
GreedyRuns ==
    /\ JoinNL(chunks) = JoinNL(paragraphs)
    /\ \A k \in 1..Len(chunks) :
           /\ chunks[k] # <<>>
           /\ HasNewline(chunks[k]) => Len(chunks[k]) <= chunk_size
    /\ \A k \in 1..(Len(chunks) - 1) :
           Len(chunks[k]) + Len(FirstParagraph(chunks[k + 1])) + 1 > chunk_size

\* C15: split_text cuts the trimmed non-empty paragraphs into consecutive runs
\* joined by single newlines, greedily: a paragraph p closes the buffer as a
\* chunk exactly when the buffer is non-empty and len(buffer) + len(p) + 1 >
\* chunk_size, else it is appended to the buffer; no chunk is empty and the
\* buffer that remains is flushed.
C15_GreedyPartition ==
    /\ [][(pc = "accumulate" /\ pidx <= Len(paragraphs)) =>
             LET p == paragraphs[pidx]
             IN  IF buf # <<>> /\ Len(buf) + Len(p) + 1 > chunk_size
                 THEN chunks' = Append(chunks, buf) /\ buf' = p
                 ELSE /\ chunks' = chunks
                      /\ buf' = IF buf = <<>> THEN p ELSE buf \o <<"\n">> \o p]_vars
    /\ [](pc \in {"slice", "while", "done"} => GreedyRuns)

\* a finished call that cut three or more paragraphs into two or more chunks,
\* one of them a run of several paragraphs that fills chunk_size exactly
C15_Witness ==
    /\ pc = "done"
    /\ Len(paragraphs) >= 3
    /\ Len(chunks) >= 2
    /\ \E k \in 1..Len(chunks) : HasNewline(chunks[k]) /\ Len(chunks[k]) = chunk_size

\* C16: with 0 <= overlap < chunk_size split_text terminates, and every
\* iteration of the hard-slice loop moves start forward by chunk_size - overlap.
C16_Terminates ==
    /\ [][(overlap < chunk_size /\ pc = "while" /\ final_chunks' # final_chunks) =>
             /\ start' = start + chunk_size - overlap
             /\ start' > start]_vars
    /\ (overlap < chunk_size) ~> (pc = "done")

\* a finished call with 0 < overlap < chunk_size whose hard-slice loop ran three
\* times or more on one chunk
C16_Witness ==
    /\ pc = "done"
    /\ 0 < overlap
    /\ overlap < chunk_size
    /\ \E i \in 1..(Len(origins) - 2) :
           /\ origins[i].sliced
           /\ origins[i + 2].sliced
           /\ origins[i].chunk = origins[i + 2].chunk

(* ----------------------------- the upload view -------------------------- *)

\* C13: an upload that passes validation creates exactly one IngestedDocument
\* row for its one ingest attempt; the row is 'processed' exactly when the ingest
\* returned a chunk count above 0; an ingest that raised or indexed no chunk
\* gives a row with status 'error', num_chunks 0 and an error message.
C13_OneRecordPerUpload ==
    (last.kind = "upload" /\ last.valid) =>
        /\ last.attempts = 1
        /\ Len(documents) = last.before + 1
        /\ LET doc == documents[Len(documents)]
           IN  /\ doc.original_name = last.name
               /\ doc.status = "processed" <=> (last.err = "none" /\ last.ret[1] > 0)
               /\ doc.status = "processed" => doc.num_chunks = last.ret[1]
               /\ (last.err # "none" \/ last.ret[1] = 0) =>
                      /\ doc.status = "error"
                      /\ doc.num_chunks = 0
                      /\ doc.error_message # ""

\* a processed upload of three chunks, two of them indexed, followed by an
\* upload whose ingest raised
C13_Witness ==
    /\ last.kind = "upload"
    /\ last.err = "IndexWriteConflict"
    /\ Len(documents) = 2
    /\ documents[1].status = "processed"
    /\ documents[1].num_chunks = 2
    /\ documents[2].status = "error"
    /\ documents[2].error_message = "IndexWriteConflict"

(* ------------------------------ the chat views -------------------------- *)

\* the messages stored for the session of the last request before the request
StoredBefore == History(FilterChats(last.before, last.session))

\* C14: ChatbotView.post sends to the completion service the system prompt,
\* then the messages stored for the session before the request in stored order,
\* then the current user message once.
C14_UserMessageOnce ==
    (last.kind = "chat" /\ last.view = "ChatbotView" /\ last.called) =>
        last.sent = <<ChatMessage("system", SystemPrompt)>> \o StoredBefore
                        \o <<ChatMessage("user", last.message)>>

\* C17: a chat request that raises ends with a failure response and leaves the
\* session store as it was; a successful one adds to the Chat rows one USER
\* message followed by one ASSISTANT message of the session, and nothing else.
C17_AllOrNothing ==
    last.kind = "chat" =>
        /\ last.raised =>
               /\ last.status = 400
               /\ store = last.before
        /\ last.status = 200 =>
               /\ ~last.raised
               /\ store.chats = last.before.chats
                      \o <<[session |-> last.session, message_by |-> USER,
                            message |-> last.message],
                           [session |-> last.session, message_by |-> ASSISTANT,
                            message |-> last.reply]>>
               /\ Len(store.sessions) = Len(last.before.sessions)
                                           + (IF last.created THEN 1 ELSE 0)
               /\ HasSession(store, last.session)
        /\ last.status \in {200, 400}

\* a request to CustomChatbotView whose completion call raised after the session
\* was created and the user message was written, and that left the store empty
C17_Witness ==
    /\ last.kind = "chat"
    /\ last.view = "CustomChatbotView"
    /\ last.raised
    /\ last.called
    /\ last.created
    /\ last.writes = 2
    /\ store = EmptyStore
    /\ Len(collection) > 0

(* ----------------------------- concurrent calls ------------------------- *)

\* C12: under any interleaving of ingest and retrieve calls, what a retrieve
\* gets holds all the entries of an ingest call or none of them, never some.
C12_NoPartialVisibility ==
    \A r \in Retrievers : \A k \in 1..Len(procs[r].seen) : \A p \in Ingesters :
        LET got == procs[r].seen[k] \cap procs[p].mine
        IN  got = {} \/ got = procs[p].mine

\* a thread whose first retrieve got the two entries of one ingest call, and
\* nothing of another ingest call that had started and wrote later, and whose
\* second retrieve got the entries of both
C12_Witness ==
    \E r \in Retrievers : \E p, q \in Ingesters :
        /\ Len(procs[r].seen) = 2
        /\ Cardinality(procs[p].mine) = 2
        /\ Cardinality(procs[q].mine) = 2
        /\ p # q
        /\ procs[r].seen[1] = procs[p].mine
        /\ procs[r].seen[2] = procs[p].mine \cup procs[q].mine

====
